---------------------------- MODULE Spec2Model ----------------------------
(***************************************************************************)
(* A model of notion_mcp.py: the markdown <-> Notion block conversion      *)
(* (markdown_to_blocks, blocks_to_markdown, extract_text, extract_title),  *)
(* the property coercion of notion_create_database_item, and call_tool.    *)
(*                                                                         *)
(* Python values are tagged records [t |-> tag, v |-> payload]:            *)
(*   str   v is a sequence of symbols; a symbol is one character, or a     *)
(*         whole literal of the source written as one symbol ("heading_1") *)
(*   list  v is the sequence of the elements                               *)
(*   dict  v is the sequence of the items [k |-> key, v |-> value], in     *)
(*         insertion order, keys distinct                                  *)
(*   bool, num, none, and exc: a raised exception, v its class             *)
(* A non-ASCII literal of the source is written as an ASCII symbol in      *)
(* angle brackets; the comment beside its definition gives the original.   *)
(* The grave accent (the fence character, U+0060) cannot be written in a   *)
(* string of this language: BT is the symbol that stands for it.           *)
(***************************************************************************)
EXTENDS Integers, Sequences, FiniteSets, TLC

VARIABLES
    content,     \* markdown_to_blocks' argument (a str)
    blocks,      \* markdown_to_blocks' result
    markdown,    \* blocks_to_markdown's result
    mdPhase,     \* "input", "parsed", "rendered", "appended"
    passNo,      \* how many times the text went through parse and render
    prevBlocks,  \* the blocks of the document before another was appended
    appended,    \* the document appended
    job,         \* which function runs on service data: "render", "title", "text"
    results,     \* the "results" of a block-children response
    pageProps,   \* the "properties" of a page
    textRuns,    \* a rich_text array
    converted,   \* what the function returned
    cvPhase,     \* "input", "done"
    props,       \* arguments["properties"] of notion_create_database_item
    propIdx,     \* how many items of props the loop has processed
    notion_props, \* the properties the loop has built
    token,       \* the NOTION_TOKEN of the environment
    calls,       \* the invocations of call_tool
    tool,        \* of each invocation: its name argument
    args,        \* its arguments argument
    pc,          \* where it is: "start", "await", "done"
    frame,       \* its locals, kept across a request
    sent,        \* the requests it has issued
    received,    \* the answers it has got
    returned,    \* what it returned, None before
    overlapped,  \* whether it went on while another invocation was waiting
    remote       \* the answers the remote service may give

mdVars == <<content, blocks, markdown, mdPhase, passNo, prevBlocks, appended>>

cvVars == <<job, results, pageProps, textRuns, converted, cvPhase>>

coVars == <<props, propIdx, notion_props>>

callVars == <<token, calls, tool, args, pc, frame, sent, received, returned, overlapped, remote>>

vars == <<mdVars, cvVars, coVars, callVars>>

----------------------------------------------------------------------------
(* Python values *)

Str(s) == [t |-> "str", v |-> s]
List(xs) == [t |-> "list", v |-> xs]
Dict(items) == [t |-> "dict", v |-> items]
Bool(b) == [t |-> "bool", v |-> b]
Num(n) == [t |-> "num", v |-> n]
\* a float, v its digits as one symbol
Float(digits) == [t |-> "float", v |-> digits]
None == [t |-> "none", v |-> <<>>]
Exc(class) == [t |-> "exc", v |-> class]
Item(key, value) == [k |-> key, v |-> value]

\* The fence character, U+0060
BT == "<U+0060>"

IsExc(x) == x.t = "exc"
EmptyStr == Str(<<>>)

Min(S) == CHOOSE x \in S : \A y \in S : x <= y

\* The first exception among the values xs, None when there is none.
FirstExc(xs) ==
    LET bad == {i \in 1..Len(xs) : IsExc(xs[i])}
    IN  IF bad = {} THEN None ELSE xs[Min(bad)]

RECURSIVE Concat(_)
Concat(ss) == IF ss = <<>> THEN <<>> ELSE Head(ss) \o Concat(Tail(ss))

\* sep.join(ss) on sequences of symbols
RECURSIVE Join(_, _)
Join(sep, ss) ==
    IF ss = <<>> THEN <<>>
    ELSE IF Len(ss) = 1 THEN ss[1]
    ELSE ss[1] \o sep \o Join(sep, Tail(ss))

\* bool(x)
Truthy(x) ==
    CASE x.t = "none" -> FALSE
      [] x.t = "bool" -> x.v
      [] x.t = "num" -> x.v # 0
      [] x.t = "float" -> x.v # "0.0"
      [] OTHER -> x.v # <<>>

HasKeyAt(d, key) == {i \in 1..Len(d.v) : d.v[i].k = key}

\* d.get(key, default): a dict answers; anything else has no attribute get.
DictGetStrict(d, key, default) ==
    IF IsExc(d) THEN d
    ELSE IF d.t # "dict" THEN Exc("AttributeError")
    ELSE LET at == {i \in 1..Len(d.v) : d.v[i].k = key}
         IN  IF at = {} THEN Exc("KeyError") ELSE d.v[Min(at)].v

DictGet(d, key, default) ==
    IF IsExc(d) THEN d
    ELSE IF d.t # "dict" THEN Exc("AttributeError")
    ELSE LET at == {i \in 1..Len(d.v) : d.v[i].k = key}
         IN  IF at = {} THEN default ELSE d.v[Min(at)].v

\* d[key] = value: in place when the key is there, at the end when not
DictSet(d, key, value) ==
    IF HasKeyAt(d, key) # {}
    THEN Dict([i \in 1..Len(d.v) |-> IF d.v[i].k = key THEN Item(key, value) ELSE d.v[i]])
    ELSE Dict(Append(d.v, Item(key, value)))

\* key in d
HasKey(d, key) == d.t = "dict" /\ \E i \in 1..Len(d.v) : d.v[i].k = key

\* What "for x in v" walks through: a list's elements, a dict's keys, a
\* str's characters; anything else is not iterable.
PyIter(x) ==
    CASE IsExc(x) -> x
      [] x.t = "list" -> x
      [] x.t = "dict" -> List([i \in 1..Len(x.v) |-> Str(<<x.v[i].k>>)])
      [] x.t = "str" -> List([i \in 1..Len(x.v) |-> Str(<<x.v[i]>>)])
      [] OTHER -> Exc("TypeError")

\* key in x: a dict's keys, a list's elements, a str's contents; anything
\* else is not a container.
In(key, x) ==
    CASE IsExc(x) -> x
      [] x.t = "dict" -> Bool(HasKey(x, key))
      [] x.t = "list" -> Bool(\E i \in 1..Len(x.v) : x.v[i] = Str(<<key>>))
      [] x.t = "str" -> Bool(\E i \in 1..Len(x.v) : x.v[i] = key)
      [] OTHER -> Exc("TypeError")

\* x[key], key a str
Subscript(x, key) ==
    CASE IsExc(x) -> x
      [] x.t = "dict" -> IF HasKey(x, key) THEN DictGet(x, key, None) ELSE Exc("KeyError")
      [] OTHER -> Exc("TypeError")

\* len(x)
PyLen(x) ==
    CASE IsExc(x) -> x
      [] x.t \in {"dict", "list", "str"} -> Num(Len(x.v))
      [] OTHER -> Exc("TypeError")

\* json.dumps(x, ensure_ascii=False) when python is FALSE, repr(x) when it
\* is TRUE (the characters of the strings here need no escape)
RECURSIVE Dumps(_, _)
Dumps(x, python) ==
    LET quote == IF python THEN "'" ELSE "\""
        parts == [i \in 1..Len(x.v) |->
                     IF x.t = "dict"
                     THEN <<quote, x.v[i].k, quote, ":", " ">> \o Dumps(x.v[i].v, python)
                     ELSE Dumps(x.v[i], python)]
    IN  CASE x.t = "none" -> IF python THEN <<"None">> ELSE <<"null">>
          [] x.t = "bool" -> IF python THEN (IF x.v THEN <<"True">> ELSE <<"False">>)
                             ELSE (IF x.v THEN <<"true">> ELSE <<"false">>)
          [] x.t = "num" -> <<ToString(x.v)>>
          [] x.t = "float" -> <<x.v>>
          [] x.t = "str" -> <<quote>> \o x.v \o <<quote>>
          [] x.t = "list" -> <<"[">> \o Join(<<",", " ">>, parts) \o <<"]">>
          [] x.t = "dict" -> <<"{">> \o Join(<<",", " ">>, parts) \o <<"}">>

----------------------------------------------------------------------------
(* str methods *)

\* str.rstrip() strips these (and the other Unicode white space)
Whitespace == {" ", "\t", "\r", "\f", "\n"}

RECURSIVE rstrip(_)
rstrip(s) ==
    IF s # <<>> /\ s[Len(s)] \in Whitespace
    THEN rstrip(SubSeq(s, 1, Len(s) - 1))
    ELSE s

startswith(s, prefix) ==
    Len(s) >= Len(prefix) /\ SubSeq(s, 1, Len(prefix)) = prefix

\* s[n:]
From(s, n) == SubSeq(s, n + 1, Len(s))

\* x.replace("-", ""): only a str has the method
ReplaceDash(x) ==
    CASE IsExc(x) -> x
      [] x.t = "str" -> Str(SelectSeq(x.v, LAMBDA c : c # "-"))
      [] OTHER -> Exc("AttributeError")

\* s.split('\n')
RECURSIVE split(_)
split(s) ==
    LET nl == {i \in 1..Len(s) : s[i] = "\n"}
    IN  IF nl = {} THEN <<s>>
        ELSE <<SubSeq(s, 1, Min(nl) - 1)>> \o split(From(s, Min(nl)))

----------------------------------------------------------------------------
(* markdown_to_blocks *)

\* {"type": kind, kind: {"rich_text": [{"type": "text", "text": {"content": text}}]}}
TextBlock(kind, text) ==
    Dict(<<Item("type", Str(<<kind>>)),
           Item(kind, Dict(<<Item("rich_text", List(<<
               Dict(<<Item("type", Str(<<"text">>)),
                      Item("text", Dict(<<Item("content", Str(text))>>))>>)>>))>>))>>)

\* The mutant of LineBlocks: the headings are told by their '#' alone.
LineBlocksHashOnly(raw) ==
    LET line == rstrip(raw)
    IN  IF line = <<>> THEN <<>>
        ELSE IF startswith(line, <<"#">>)
             THEN <<TextBlock("heading_1", From(line, 2))>>
        ELSE IF startswith(line, <<"#", "#", " ">>)
             THEN <<TextBlock("heading_2", From(line, 3))>>
        ELSE IF startswith(line, <<"#", "#", "#", " ">>)
             THEN <<TextBlock("heading_3", From(line, 4))>>
        ELSE IF startswith(line, <<"-", " ">>) \/ startswith(line, <<"*", " ">>)
             THEN <<TextBlock("bulleted_list_item", From(line, 2))>>
        ELSE IF startswith(line, <<BT, BT, BT>>) THEN <<>>
        ELSE <<TextBlock("paragraph", line)>>

\* The body of the loop: the blocks one line appends.
LineBlocks(raw) ==
    LET line == rstrip(raw)
    IN  IF line = <<>> THEN <<>>
        ELSE IF startswith(line, <<"#", " ">>)
             THEN <<TextBlock("heading_1", From(line, 2))>>
        ELSE IF startswith(line, <<"#", "#", " ">>)
             THEN <<TextBlock("heading_2", From(line, 3))>>
        ELSE IF startswith(line, <<"#", "#", "#", " ">>)
             THEN <<TextBlock("heading_3", From(line, 4))>>
        ELSE IF startswith(line, <<"-", " ">>) \/ startswith(line, <<"*", " ">>)
             THEN <<TextBlock("bulleted_list_item", From(line, 2))>>
        ELSE IF startswith(line, <<BT, BT, BT>>) THEN <<>>
        ELSE <<TextBlock("paragraph", line)>>

RECURSIVE BlocksOfLines(_)
BlocksOfLines(lines) ==
    IF lines = <<>> THEN <<>>
    ELSE LineBlocks(Head(lines)) \o BlocksOfLines(Tail(lines))

\* The mutant of markdown_to_blocks: a parser that remembers whether it is
\* inside a fence, and emits the lines inside as code blocks.
RECURSIVE FencedBlocksOfLines(_, _)
FencedBlocksOfLines(lines, inside) ==
    IF lines = <<>> THEN <<>>
    ELSE IF startswith(rstrip(Head(lines)), <<BT, BT, BT>>)
         THEN FencedBlocksOfLines(Tail(lines), ~inside)
    ELSE IF inside
         THEN <<TextBlock("code", Head(lines))>>
                 \o FencedBlocksOfLines(Tail(lines), inside)
    ELSE LineBlocks(Head(lines)) \o FencedBlocksOfLines(Tail(lines), inside)

markdown_to_blocks_fenced(text) ==
    IF IsExc(text) THEN text
    ELSE IF text.t # "str" THEN Exc("AttributeError")
    ELSE List(FencedBlocksOfLines(split(text.v), FALSE))

markdown_to_blocks(text) ==
    IF IsExc(text) THEN text
    ELSE IF text.t # "str" THEN Exc("AttributeError")
    ELSE List(BlocksOfLines(split(text.v)))

----------------------------------------------------------------------------
(* blocks_to_markdown, extract_text, extract_title *)

\* str(x), as an f-string formats x
PyStr(x) ==
    CASE x.t = "str" -> x.v
      [] x.t = "none" -> <<"None">>
      [] x.t = "bool" -> IF x.v THEN <<"True">> ELSE <<"False">>
      [] x.t = "num" -> <<ToString(x.v)>>
      [] x.t = "float" -> <<x.v>>
      [] OTHER -> Dumps(x, TRUE)

extract_text(rich_text) ==
    LET runs == PyIter(rich_text)
    IN  IF IsExc(runs) THEN runs
        ELSE LET parts == [i \in 1..Len(runs.v) |->
                              DictGet(runs.v[i], "plain_text", EmptyStr)]
             IN  IF FirstExc(parts) # None THEN FirstExc(parts)
                 ELSE IF \E i \in 1..Len(parts) : parts[i].t # "str"
                      THEN Exc("TypeError")
                 ELSE Str(Concat([i \in 1..Len(parts) |-> parts[i].v]))

\* block.get(kind, {}).get("rich_text", []) through extract_text
BlockText(block, kind) ==
    extract_text(DictGet(DictGet(block, kind, Dict(<<>>)), "rich_text", List(<<>>)))

Prefixed(prefix, text) == IF IsExc(text) THEN text ELSE Str(prefix \o text.v)

\* The mutant of RenderBlock: a numbered item carries no "1. ", and a block
\* of an unknown type is rendered as its text.
RenderBlockLoose(block) ==
    LET block_type == DictGet(block, "type", EmptyStr)
    IN  IF IsExc(block_type) THEN block_type
        ELSE IF block_type = Str(<<"numbered_list_item">>)
             THEN BlockText(block, "numbered_list_item")
        ELSE IF block_type = Str(<<"heading_1">>)
             THEN Prefixed(<<"#", " ">>, BlockText(block, "heading_1"))
        ELSE BlockText(block, "paragraph")

\* One turn of the loop: the str appended to lines, None when the block's
\* type is not one of the nine, or the exception raised.
RenderBlock(block) ==
    LET block_type == DictGet(block, "type", EmptyStr)
    IN  IF IsExc(block_type) THEN block_type
        ELSE IF block_type = Str(<<"paragraph">>)
             THEN BlockText(block, "paragraph")
        ELSE IF block_type = Str(<<"heading_1">>)
             THEN Prefixed(<<"#", " ">>, BlockText(block, "heading_1"))
        ELSE IF block_type = Str(<<"heading_2">>)
             THEN Prefixed(<<"#", "#", " ">>, BlockText(block, "heading_2"))
        ELSE IF block_type = Str(<<"heading_3">>)
             THEN Prefixed(<<"#", "#", "#", " ">>, BlockText(block, "heading_3"))
        ELSE IF block_type = Str(<<"bulleted_list_item">>)
             THEN Prefixed(<<"-", " ">>, BlockText(block, "bulleted_list_item"))
        ELSE IF block_type = Str(<<"numbered_list_item">>)
             THEN Prefixed(<<"1", ".", " ">>, BlockText(block, "numbered_list_item"))
        ELSE IF block_type = Str(<<"code">>)
             THEN LET text == BlockText(block, "code")
                      lang == DictGet(DictGet(block, "code", Dict(<<>>)),
                                      "language", EmptyStr)
                  IN  IF IsExc(text) THEN text
                      ELSE IF IsExc(lang) THEN lang
                      ELSE Str(<<BT, BT, BT>> \o PyStr(lang) \o <<"\n">>
                               \o text.v \o <<"\n", BT, BT, BT>>)
        ELSE IF block_type = Str(<<"quote">>)
             THEN Prefixed(<<">", " ">>, BlockText(block, "quote"))
        ELSE IF block_type = Str(<<"to_do">>)
             THEN LET text == BlockText(block, "to_do")
                      checked == DictGet(DictGet(block, "to_do", Dict(<<>>)),
                                         "checked", Bool(FALSE))
                  IN  IF IsExc(text) THEN text
                      ELSE IF IsExc(checked) THEN checked
                      ELSE Str(<<"-", " ", "[">>
                               \o (IF Truthy(checked) THEN <<"x">> ELSE <<" ">>)
                               \o <<"]", " ">> \o text.v)
        ELSE None

RECURSIVE RenderFrom(_, _, _)
RenderFrom(bs, i, lines) ==
    IF i > Len(bs) THEN Str(Join(<<"\n">>, lines))
    ELSE LET r == RenderBlock(bs[i])
         IN  IF IsExc(r) THEN r
             ELSE RenderFrom(bs, i + 1, IF r = None THEN lines ELSE Append(lines, r.v))

blocks_to_markdown(bs) ==
    LET walked == PyIter(bs)
    IN  IF IsExc(walked) THEN walked ELSE RenderFrom(walked.v, 1, <<>>)

\* "Untitled"
Untitled == Str(<<"Untitled">>)

RECURSIVE TitleFrom(_, _)
TitleFrom(items, i) ==
    IF i > Len(items) THEN Untitled
    ELSE LET ty == DictGet(items[i].v, "type", None)
         IN  IF IsExc(ty) THEN ty
             ELSE IF ty = Str(<<"title">>)
                  THEN extract_text(DictGet(items[i].v, "title", List(<<>>)))
             ELSE TitleFrom(items, i + 1)

\* The mutant of extract_title: the last title-typed entry wins.
RECURSIVE TitleFromLast(_, _)
TitleFromLast(items, i) ==
    IF i < 1 THEN Untitled
    ELSE LET ty == DictGet(items[i].v, "type", None)
         IN  IF IsExc(ty) THEN ty
             ELSE IF ty = Str(<<"title">>)
                  THEN extract_text(DictGet(items[i].v, "title", List(<<>>)))
             ELSE TitleFromLast(items, i - 1)

extract_title_last(properties) ==
    IF IsExc(properties) THEN properties
    ELSE IF properties.t # "dict" THEN Exc("AttributeError")
    ELSE TitleFromLast(properties.v, Len(properties.v))

extract_title(properties) ==
    IF IsExc(properties) THEN properties
    ELSE IF properties.t # "dict" THEN Exc("AttributeError")
    ELSE TitleFrom(properties.v, 1)

----------------------------------------------------------------------------
(* The conversion pipeline: parse, render, parse again; append. *)

MaxLineLen == 5
MaxLines == 2
MaxPasses == 2

LineAlphabet == {"#", " ", "-", "*", BT, "a", "\t"}

\* The lines documents are built of: one of each class, and a blank one.
DocLines ==
    { <<>>, <<"a", " ">>, <<"#", " ", "a">>, <<"*", " ", "a">>,
      <<BT, BT, BT, "a">>, <<"-", " ", "#", " ", "a">> }

Docs == UNION {{Join(<<"\n">>, ls) : ls \in [1..n -> DocLines]} : n \in 1..MaxLines}

MdStart ==
    /\ blocks = List(<<>>)
    /\ markdown = EmptyStr
    /\ mdPhase = "input"
    /\ passNo = 1
    /\ prevBlocks = List(<<>>)
    /\ appended = EmptyStr

MdIdle == content = EmptyStr /\ MdStart

CvIdle ==
    /\ job = "none"
    /\ results = List(<<>>)
    /\ pageProps = Dict(<<>>)
    /\ textRuns = List(<<>>)
    /\ converted = None
    /\ cvPhase = "input"

CoIdle ==
    /\ props = Dict(<<>>)
    /\ propIdx = 0
    /\ notion_props = Dict(<<>>)

CallIdle ==
    /\ token = None
    /\ calls = {}
    /\ tool = <<>>
    /\ args = <<>>
    /\ pc = <<>>
    /\ frame = <<>>
    /\ sent = <<>>
    /\ received = <<>>
    /\ returned = <<>>
    /\ overlapped = <<>>
    /\ remote = {}

InitLine ==
    /\ \E n \in 0..MaxLineLen : \E s \in [1..n -> LineAlphabet] : content = Str(s)
    /\ MdStart /\ CvIdle /\ CoIdle /\ CallIdle

InitMd ==
    content \in {Str(s) : s \in Docs} /\ MdStart /\ CvIdle /\ CoIdle /\ CallIdle

Parse ==
    /\ mdPhase = "input"
    /\ blocks' = markdown_to_blocks(content)
    /\ mdPhase' = "parsed"
    /\ UNCHANGED <<content, markdown, passNo, prevBlocks, appended, cvVars, coVars, callVars>>

Render ==
    /\ mdPhase = "parsed"
    /\ markdown' = blocks_to_markdown(blocks)
    /\ mdPhase' = "rendered"
    /\ UNCHANGED <<content, blocks, passNo, prevBlocks, appended, cvVars, coVars, callVars>>

\* The rendered text is the next pass's document.
Feed ==
    /\ mdPhase = "rendered"
    /\ passNo < MaxPasses
    /\ ~IsExc(markdown)
    /\ content' = markdown
    /\ passNo' = passNo + 1
    /\ mdPhase' = "input"
    /\ UNCHANGED <<blocks, markdown, prevBlocks, appended, cvVars, coVars, callVars>>

\* The document a + "\n" + b is parsed, a's blocks kept beside.
AppendDoc ==
    /\ mdPhase = "parsed"
    /\ passNo = 1
    /\ \E b \in Docs :
          /\ appended' = Str(b)
          /\ content' = Str(content.v \o <<"\n">> \o b)
          /\ blocks' = markdown_to_blocks(Str(content.v \o <<"\n">> \o b))
    /\ prevBlocks' = blocks
    /\ mdPhase' = "appended"
    /\ UNCHANGED <<markdown, passNo, cvVars, coVars, callVars>>

NextLine == Parse

NextMd == Parse \/ Render \/ Feed \/ AppendDoc

SpecLine == InitLine /\ [][NextLine]_vars

SpecMd == InitMd /\ [][NextMd]_vars

----------------------------------------------------------------------------
(* Claims about markdown_to_blocks and the round trip *)

\* C1: once a document has been parsed and rendered, parsing and rendering
\* the rendered text again gives the same text: in the second pass, whose
\* document is the first pass's rendering, the rendering equals the document.
C1_SecondPassIdempotent ==
    (passNo = 2 /\ mdPhase = "rendered") => markdown = content

\* The classification of the specification's table: strip, drop the empty
\* line, then "### " before "## " before "# ", the bullets, the fence, and
\* the paragraph for the rest.
TableLine(raw) ==
    LET line == rstrip(raw)
    IN  CASE line = <<>> -> <<>>
          [] startswith(line, <<"#", "#", "#", " ">>) ->
                <<TextBlock("heading_3", SubSeq(line, 5, Len(line)))>>
          [] startswith(line, <<"#", "#", " ">>) ->
                <<TextBlock("heading_2", SubSeq(line, 4, Len(line)))>>
          [] startswith(line, <<"#", " ">>) ->
                <<TextBlock("heading_1", SubSeq(line, 3, Len(line)))>>
          [] startswith(line, <<"-", " ">>) \/ startswith(line, <<"*", " ">>) ->
                <<TextBlock("bulleted_list_item", SubSeq(line, 3, Len(line)))>>
          [] OTHER -> IF startswith(line, <<BT, BT, BT>>) THEN <<>>
                      ELSE <<TextBlock("paragraph", line)>>

\* C5: the blocks markdown_to_blocks returns are, line by line, the blocks
\* of the specification's precedence table.
C5_ClassificationIsTheTable ==
    mdPhase = "parsed" =>
        blocks = List(Concat([i \in 1..Len(split(content.v)) |->
                                 TableLine(split(content.v)[i])]))

\* A "### " line, which the code tests last, has become a heading_3.
C5_Witness ==
    /\ mdPhase = "parsed"
    /\ content = Str(<<"#", "#", "#", " ", "a">>)
    /\ blocks = List(<<TextBlock("heading_3", <<"a">>)>>)

\* C6: parsing is line-local: the blocks of a + "\n" + b are the blocks of a
\* followed by the blocks of b, and a document of blank lines has no block.
C6_LineLocal ==
    /\ mdPhase = "appended" =>
          /\ blocks.t = "list"
          /\ blocks.v = prevBlocks.v \o markdown_to_blocks(appended).v
    /\ (mdPhase = "parsed" /\ \A i \in 1..Len(content.v) : content.v[i] \in Whitespace)
          => blocks = List(<<>>)

\* A heading between two fence lines is the heading it is outside them.
C6_Witness ==
    /\ mdPhase = "appended"
    /\ content = Str(<<BT, BT, BT, "a", "\n", "#", " ", "a", "\n", BT, BT, BT, "a">>)
    /\ appended = Str(<<BT, BT, BT, "a">>)
    /\ blocks = List(<<TextBlock("heading_1", <<"a">>)>>)

----------------------------------------------------------------------------
(* The conversions of service data: what the service may send, and the     *)
(* three functions applied to it.                                          *)

MaxBlocks == 2
MaxProps == 2

BlockKinds ==
    {"paragraph", "heading_1", "heading_2", "heading_3", "bulleted_list_item",
     "numbered_list_item", "code", "quote", "to_do"}

Run(text) == Dict(<<Item("type", Str(<<"text">>)), Item("plain_text", Str(text))>>)
RunNoText == Dict(<<Item("type", Str(<<"text">>))>>)

\* rich_text arrays: empty, a run with no plain_text, runs to concatenate
RichTexts ==
    { <<>>, <<RunNoText>>, <<Run(<<>>)>>, <<Run(<<"a">>), RunNoText, Run(<<"b", " ">>)>> }

\* The type-named sub-object, with or without its rich_text
SubObjects == {Dict(<<>>)} \cup {Dict(<<Item("rich_text", List(rt))>>) : rt \in RichTexts}

Texted == Item("rich_text", List(<<Run(<<"a">>), Run(<<"b">>)>>))

ServiceBlocks ==
    \* a block of each kind: its sub-object absent, or holding runs of text
    {Dict(<<Item("type", Str(<<k>>))>>) : k \in BlockKinds}
    \cup {Dict(<<Item("type", Str(<<k>>)),
                 Item(k, Dict(<<Item("rich_text",
                     List(<<Run(<<"a">>), RunNoText, Run(<<"b", " ">>)>>))>>))>>) :
             k \in BlockKinds}
    \* a paragraph whose sub-object is empty, or whose rich_text is
    \cup {Dict(<<Item("type", Str(<<"paragraph">>)), Item("paragraph", so)>>) :
             so \in SubObjects}
    \* code with its language, to_do with its checked
    \cup {Dict(<<Item("type", Str(<<"code">>)), Item("code", Dict(fs))>>) :
             fs \in { <<Item("language", Str(<<"py">>))>>,
                      <<Texted, Item("language", Str(<<"py">>))>>,
                      <<Texted, Item("language", EmptyStr)>> }}
    \cup {Dict(<<Item("type", Str(<<"to_do">>)), Item("to_do", Dict(fs))>>) :
             fs \in { <<Item("checked", Bool(TRUE))>>,
                      <<Texted, Item("checked", Bool(TRUE))>>,
                      <<Texted, Item("checked", Bool(FALSE))>> }}
    \* kinds the function does not know, no type, nothing at all
    \cup { Dict(<<Item("type", Str(<<"divider">>)), Item("divider", Dict(<<>>))>>),
           Dict(<<Item("type", Str(<<"table">>)), Item("paragraph", Dict(<<Texted>>))>>),
           Dict(<<Item("type", EmptyStr), Item("paragraph", Dict(<<Texted>>))>>),
           Dict(<<Item("paragraph", Dict(<<Texted>>))>>),
           Dict(<<>>) }

\* Property values: typed or not, a title with or without its runs
PropertyValues ==
    { Dict(<<>>),
      Dict(<<Item("type", Str(<<"select">>)), Item("select", None)>>),
      Dict(<<Item("type", Str(<<"rich_text">>)), Item("rich_text", List(<<Run(<<"r">>)>>))>>),
      Dict(<<Item("type", Str(<<"title">>))>>),
      Dict(<<Item("type", Str(<<"title">>)), Item("title", List(<<>>))>>),
      Dict(<<Item("type", Str(<<"title">>)),
             Item("title", List(<<Run(<<"R", "e">>), Run(<<"p">>)>>))>>),
      Dict(<<Item("type", Str(<<"title">>)), Item("title", List(<<Run(<<"Q">>)>>))>>),
      Dict(<<Item("type", Str(<<"title">>)), Item("title", List(<<Run(<<"Untitled">>)>>))>>) }

\* The names of the properties, in the order the service sent them
KeyNames == <<"Status", "Name", "Tags", "Owner", "Due">>

PropertyMap(vs) == Dict([i \in 1..Len(vs) |-> Item(KeyNames[i], vs[i])])

InitCv ==
    /\ MdIdle /\ CoIdle /\ CallIdle
    /\ converted = None
    /\ cvPhase = "input"
    /\ \/ /\ job = "render"
          /\ \E n \in 0..MaxBlocks : \E bs \in [1..n -> ServiceBlocks] : results = List(bs)
          /\ pageProps = Dict(<<>>)
          /\ textRuns = List(<<>>)
       \/ /\ job = "title"
          /\ results = List(<<>>)
          /\ \E n \in 0..MaxProps : \E vs \in [1..n -> PropertyValues] :
                pageProps = PropertyMap(vs)
          /\ textRuns = List(<<>>)
       \/ /\ job = "text"
          /\ results = List(<<>>)
          /\ pageProps = Dict(<<>>)
          /\ textRuns \in {List(rt) : rt \in RichTexts}

RenderChildren ==
    /\ cvPhase = "input" /\ job = "render"
    /\ converted' = blocks_to_markdown(results)
    /\ cvPhase' = "done"
    /\ UNCHANGED <<job, results, pageProps, textRuns, mdVars, coVars, callVars>>

ExtractTitle ==
    /\ cvPhase = "input" /\ job = "title"
    /\ converted' = extract_title(pageProps)
    /\ cvPhase' = "done"
    /\ UNCHANGED <<job, results, pageProps, textRuns, mdVars, coVars, callVars>>

ExtractText ==
    /\ cvPhase = "input" /\ job = "text"
    /\ converted' = extract_text(textRuns)
    /\ cvPhase' = "done"
    /\ UNCHANGED <<job, results, pageProps, textRuns, mdVars, coVars, callVars>>

NextCv == RenderChildren \/ ExtractTitle \/ ExtractText

SpecCv == InitCv /\ [][NextCv]_vars

----------------------------------------------------------------------------
(* Claims about blocks_to_markdown, extract_text and extract_title *)

\* C4: on service data whose fields may be absent or empty at every level,
\* blocks_to_markdown, extract_text and extract_title raise nothing and
\* return a str.
C4_TotalOverPartialData ==
    cvPhase = "done" => converted.t = "str"

\* A code block with no "code" sub-object is rendered as an empty fence.
C4_Witness ==
    /\ cvPhase = "done" /\ job = "render"
    /\ results = List(<<Dict(<<Item("type", Str(<<"code">>))>>)>>)
    /\ converted = Str(<<BT, BT, BT, "\n", "\n", BT, BT, BT>>)

\* The rendering table of the specification.
TablePrefix ==
    [paragraph |-> <<>>, heading_1 |-> <<"#", " ">>, heading_2 |-> <<"#", "#", " ">>,
     heading_3 |-> <<"#", "#", "#", " ">>, bulleted_list_item |-> <<"-", " ">>,
     numbered_list_item |-> <<"1", ".", " ">>, quote |-> <<">", " ">>]

\* The field of a record of the service, or the default when it is absent
Field(record, name, default) ==
    IF \E i \in 1..Len(record.v) : record.v[i].k = name
    THEN record.v[CHOOSE i \in 1..Len(record.v) : record.v[i].k = name].v
    ELSE default

\* The concatenation of the runs' plain text, a run without any counting as ""
TableText(block, kind) ==
    LET runs == Field(Field(block, kind, Dict(<<>>)), "rich_text", List(<<>>)).v
    IN  Concat([i \in 1..Len(runs) |-> Field(runs[i], "plain_text", EmptyStr).v])

TableKind(block) == Field(block, "type", EmptyStr).v

Recognized(block) ==
    /\ Len(TableKind(block)) = 1
    /\ TableKind(block)[1] \in BlockKinds

TableEntry(block) ==
    LET kind == TableKind(block)[1]
        text == TableText(block, kind)
    IN  CASE kind = "code" ->
                <<BT, BT, BT>> \o Field(Field(block, "code", Dict(<<>>)), "language", EmptyStr).v
                    \o <<"\n">> \o text \o <<"\n", BT, BT, BT>>
          [] kind = "to_do" ->
                (IF Field(Field(block, "to_do", Dict(<<>>)), "checked", Bool(FALSE)).v
                 THEN <<"-", " ", "[", "x", "]", " ">>
                 ELSE <<"-", " ", "[", " ", "]", " ">>) \o text
          [] OTHER -> TablePrefix[kind] \o text

\* C7: blocks_to_markdown returns the "\n"-join, in order, of one entry of
\* the rendering table per block of a recognized kind, and nothing for the
\* other blocks.
C7_RenderingIsTheTable ==
    (cvPhase = "done" /\ job = "render") =>
        LET known == SelectSeq(results.v, Recognized)
        IN  converted = Str(Join(<<"\n">>, [i \in 1..Len(known) |-> TableEntry(known[i])]))

\* Two numbered items around a block of an unknown kind: two "1. " lines.
C7_Witness ==
    /\ cvPhase = "done" /\ job = "render"
    /\ Len(results.v) = 2
    /\ \A i \in 1..2 : results.v[i] =
           Dict(<<Item("type", Str(<<"numbered_list_item">>)),
                  Item("numbered_list_item", Dict(<<Item("rich_text",
                      List(<<Run(<<"a">>), RunNoText, Run(<<"b", " ">>)>>))>>))>>)
    /\ converted = Str(<<"1", ".", " ", "a", "b", " ", "\n", "1", ".", " ", "a", "b", " ">>)

IsTitle(item) == Field(item.v, "type", None) = Str(<<"title">>)

TitleText(item) ==
    LET runs == Field(item.v, "title", List(<<>>)).v
    IN  Str(Concat([i \in 1..Len(runs) |-> Field(runs[i], "plain_text", EmptyStr).v]))

\* C8 as stated: extract_title returns the text of the first title-typed
\* entry, and returns "Untitled" exactly when no entry is title-typed.
C8_UntitledExactlyWhenNoTitle ==
    (cvPhase = "done" /\ job = "title") =>
        LET titles == SelectSeq(pageProps.v, IsTitle)
        IN  /\ titles # <<>> => converted = TitleText(titles[1])
            /\ converted = Untitled <=> titles = <<>>

\* C8, amended: extract_title returns the text of the first title-typed
\* entry when there is one, whatever that text is, and "Untitled" when
\* there is none.
C8_FirstTitleOrUntitled ==
    (cvPhase = "done" /\ job = "title") =>
        LET titles == SelectSeq(pageProps.v, IsTitle)
        IN  converted = IF titles = <<>> THEN Untitled ELSE TitleText(titles[1])

\* Two title-typed entries: the first one's runs, concatenated, come back.
C8_Witness ==
    /\ cvPhase = "done" /\ job = "title"
    /\ Len(pageProps.v) = 2
    /\ IsTitle(pageProps.v[1]) /\ IsTitle(pageProps.v[2])
    /\ TitleText(pageProps.v[2]) = Str(<<"Q">>)
    /\ converted = Str(<<"R", "e", "p">>)

----------------------------------------------------------------------------
(* Property coercion: the loop of notion_create_database_item *)

\* {"title": [{"text": {"content": value}}]}, and the same under "rich_text"
TextProperty(kind, value) ==
    Dict(<<Item(kind, List(<<Dict(<<Item("text", Dict(<<Item("content", value)>>))>>)>>))>>)

\* The mutant of CoerceItem: every str value is wrapped as a title, whatever
\* was emitted before it.
CoerceItemAllTitles(built, key, value) ==
    IF value.t = "str"
    THEN DictSet(built, key, TextProperty("title", value))
    ELSE IF value.t = "bool"
         THEN DictSet(built, key, Dict(<<Item("checkbox", value)>>))
    ELSE IF value.t \in {"num", "bool", "float"}
         THEN DictSet(built, key, Dict(<<Item("number", value)>>))
    ELSE built

\* One turn of the loop: notion_props after the item (key, value).
CoerceItem(built, key, value) ==
    IF value.t = "str"
    THEN IF ~Truthy(built)
         THEN DictSet(built, key, TextProperty("title", value))
         ELSE DictSet(built, key, TextProperty("rich_text", value))
    ELSE IF value.t = "bool"
         THEN DictSet(built, key, Dict(<<Item("checkbox", value)>>))
    ELSE IF value.t \in {"num", "bool", "float"}
         THEN DictSet(built, key, Dict(<<Item("number", value)>>))
    ELSE built

\* The values a caller may give a property
ArgValues ==
    { Str(<<"T", "a", "s", "k">>), EmptyStr, Bool(TRUE), Bool(FALSE), Num(2), Num(0),
      Float("2.5"), None, List(<<Str(<<"a">>)>>), Dict(<<Item("name", Str(<<"a">>))>>) }

\* The names of the argument's properties, in the order the caller wrote them
ArgNames == <<"Name", "Done", "Priority", "Tags", "Notes">>

InitCo ==
    /\ MdIdle /\ CvIdle /\ CallIdle
    /\ \E n \in 0..MaxProps : \E vs \in [1..n -> ArgValues] :
          props = Dict([i \in 1..n |-> Item(ArgNames[i], vs[i])])
    /\ propIdx = 0
    /\ notion_props = Dict(<<>>)

CoerceNext ==
    /\ propIdx < Len(props.v)
    /\ notion_props' = CoerceItem(notion_props, props.v[propIdx + 1].k, props.v[propIdx + 1].v)
    /\ propIdx' = propIdx + 1
    /\ UNCHANGED <<props, mdVars, cvVars, callVars>>

NextCo == CoerceNext

SpecCo == InitCo /\ [][NextCo]_vars

----------------------------------------------------------------------------
(* Claims about the property coercion *)

\* What notion_props holds under a key: "title", "rich_text", "checkbox",
\* "number", or "nothing" when the key was not emitted
EmittedAs(key) ==
    IF HasKey(notion_props, key)
    THEN DictGet(notion_props, key, None).v[1].k
    ELSE "nothing"

\* C2: whatever the type of its value, the first key of the argument map is
\* emitted as the title property.
C2_FirstKeyIsTitle ==
    propIdx >= 1 => EmittedAs(props.v[1].k) = "title"

\* C3: a key that is not the first is emitted by the type of its value: a
\* str as rich_text, a bool as checkbox, a number as number, whatever the
\* values before it.
C3_LaterKeysByType ==
    \A i \in 2..propIdx :
        LET value == props.v[i].v
            emitted == EmittedAs(props.v[i].k)
        IN  /\ value.t = "str" => emitted = "rich_text"
            /\ value.t = "bool" => emitted = "checkbox"
            /\ value.t \in {"num", "float"} => emitted = "number"

\* The positions of notion_props that hold a title-typed property
TitlesEmitted == {i \in 1..Len(notion_props.v) : notion_props.v[i].v.v[1].k = "title"}

\* C11: after any prefix of the argument map has been processed, notion_props
\* holds at most one title-typed property, each of its keys is a processed
\* key of the argument map whose value is a str, a bool or a number, and a
\* processed key whose value is of another type (None, list, dict) is not in
\* it.
C11_CoercedSetWellFormed ==
    /\ Cardinality(TitlesEmitted) <= 1
    /\ \A i \in 1..Len(notion_props.v) :
          \E j \in 1..propIdx :
              /\ props.v[j].k = notion_props.v[i].k
              /\ props.v[j].v.t \in {"str", "bool", "num", "float"}
    /\ \A j \in 1..propIdx :
          props.v[j].v.t \in {"none", "list", "dict"} => EmittedAs(props.v[j].k) = "nothing"

\* Two str values have been processed: the first is the one title, the
\* second a rich_text.
C11_Witness ==
    /\ propIdx = 2
    /\ props.v[1].v = Str(<<"T", "a", "s", "k">>) /\ props.v[2].v = EmptyStr
    /\ Len(notion_props.v) = 2
    /\ TitlesEmitted = {1}
    /\ EmittedAs(props.v[2].k) = "rich_text"

----------------------------------------------------------------------------
(* call_tool: one invocation is a coroutine that runs to its next request, *)
(* waits for the answer, and goes on; invocations interleave at the waits. *)
(* The literals of the messages are written as ASCII symbols:              *)
(*   "<error>: "            for the source's error prefix (lines 281, 475) *)
(*   "<HTTP error>: "       for the HTTP error prefix (line 473)           *)
(*   "<set NOTION_TOKEN>"   for the hint of line 281                      *)
(*   "<search failed>: ", "<get page failed>: ", "<create failed>: ",      *)
(*   "<append failed>: ", "<query failed>: "  for the failure prefixes     *)
(*   "<page>: ", "<database>: ", "<database> ", "<bullet> "  for the       *)
(*   prefixes of a listed entry, and the others as they read.              *)

NOTION_API == "https://api.notion.com/v1"
NOTION_VERSION == "2022-06-28"

\* TextContent(type="text", text=text)
TextContent(text) == [t |-> "TextContent", v |-> text]

\* get_headers(): the headers, or the ValueError it raises
get_headers(tok) ==
    IF ~Truthy(tok) THEN Exc("ValueError")
    ELSE Dict(<<Item("Authorization", Str(<<"Bearer ">> \o tok.v)),
                Item("Notion-Version", Str(<<NOTION_VERSION>>)),
                Item("Content-Type", Str(<<"application/json">>))>>)

\* str(e)
ExcMessage(e) ==
    IF e.v = "ValueError" THEN <<"NOTION_TOKEN environment variable not set">>
    ELSE <<"<message of ", e.v, ">">>

\* The locals an invocation keeps across a request
Locals(headers, page_id, title, step) ==
    [headers |-> headers, page_id |-> page_id, title |-> title, step |-> step]
NoLocals == Locals(None, None, None, 0)

\* client.get / client.post / client.patch
Request(method, url, headers, json) ==
    [t |-> "request", v |-> [method |-> method, url |-> url, headers |-> headers, json |-> json]]

\* How a stretch of the coroutine ends: it returns, raises, or awaits.
Return(text) ==
    [kind |-> "return", value |-> List(<<TextContent(text)>>), req |-> None, locals |-> NoLocals]
Raise(e) == [kind |-> "raise", value |-> e, req |-> None, locals |-> NoLocals]
Await(req, locals) == [kind |-> "await", value |-> None, req |-> req, locals |-> locals]

\* The mutant of Handle: only httpx.HTTPError is caught.
HandleHttpOnly(outcome) ==
    IF outcome.kind # "raise" THEN outcome
    ELSE IF outcome.value.v = "HTTPError"
         THEN Return(<<"<HTTP error>: ">> \o ExcMessage(outcome.value))
    ELSE outcome

\* except httpx.HTTPError / except Exception
Handle(outcome) ==
    IF outcome.kind # "raise" THEN outcome
    ELSE IF outcome.value.v = "HTTPError"
         THEN Return(<<"<HTTP error>: ">> \o ExcMessage(outcome.value))
    ELSE Return(<<"<error>: ">> \o ExcMessage(outcome.value))

\* The loop "for x in xs: ... results.append(...)": walked is what iterating
\* xs gives, and rs has for each turn the str it appends, None when it
\* appends nothing, or the exception it raises.
Collect(walked, rs) ==
    IF IsExc(walked) THEN walked
    ELSE IF FirstExc(rs) # None THEN FirstExc(rs)
    ELSE List(SelectSeq(rs, LAMBDA r : r # None))

\* The elements "for x in xs" walks through, none if xs cannot be iterated
Walk(xs) == IF IsExc(PyIter(xs)) THEN <<>> ELSE PyIter(xs).v

Texts(strs) == [i \in 1..Len(strs) |-> strs[i].v]

RECURSIVE CoerceFrom(_, _, _)
CoerceFrom(items, i, built) ==
    IF i > Len(items) THEN built
    ELSE CoerceFrom(items, i + 1, CoerceItem(built, items[i].k, items[i].v))

\* notion_props after the loop over props.items()
CoerceAll(given) ==
    IF IsExc(given) THEN given
    ELSE IF given.t # "dict" THEN Exc("AttributeError")
    ELSE CoerceFrom(given.v, 1, Dict(<<>>))

\* Whether x can be a dict key
Hashable(x) == x.t \notin {"list", "dict"}
KeyOf(x) == IF x.t = "str" /\ Len(x.v) = 1 THEN x.v[1] ELSE ToString(x.v)

SearchStart(arguments, headers) ==
    LET query == DictGet(arguments, "query", EmptyStr)
        filter_type == DictGet(arguments, "filter", None)
        page_size == DictGet(arguments, "page_size", Num(10))
        payload == Dict(<<Item("query", query), Item("page_size", page_size)>>)
    IN  IF IsExc(query) THEN Raise(query)
        ELSE Await(Request("POST", <<NOTION_API, "/search">>, headers,
                  IF Truthy(filter_type)
                  THEN DictSet(payload, "filter",
                           Dict(<<Item("property", Str(<<"object">>)),
                                  Item("value", filter_type)>>))
                  ELSE payload),
                  Locals(headers, None, None, 1))

SearchItem(item) ==
    LET obj_type == DictGet(item, "object", None)
        item_id == DictGet(item, "id", None)
    IN  IF IsExc(obj_type) THEN obj_type
        ELSE IF obj_type = Str(<<"page">>)
             THEN LET title == extract_title(DictGet(item, "properties", Dict(<<>>)))
                  IN  IF IsExc(title) THEN title
                      ELSE Str(<<"<page>: ">> \o title.v \o <<"\n", "   ID: ">> \o PyStr(item_id))
        ELSE IF obj_type = Str(<<"database">>)
             THEN LET title == extract_text(DictGet(item, "title", List(<<>>)))
                  IN  IF IsExc(title) THEN title
                      ELSE Str(<<"<database>: ">> \o title.v \o <<"\n", "   ID: ">> \o PyStr(item_id))
        ELSE None

SearchResume(data) ==
    LET has == In("results", data)
        found == Collect(PyIter(Subscript(data, "results")),
                 [i \in 1..Len(Walk(Subscript(data, "results"))) |-> SearchItem(Walk(Subscript(data, "results"))[i])])
    IN  IF IsExc(has) THEN Raise(has)
        ELSE IF ~has.v THEN Return(<<"<search failed>: ">> \o Dumps(data, FALSE))
        ELSE IF IsExc(found) THEN Raise(found)
        ELSE IF found.v = <<>> THEN Return(<<"<no matching results>">>)
        ELSE Return(Join(<<"\n", "\n">>, Texts(found.v)))

GetPageStart(arguments, headers) ==
    LET page_id == ReplaceDash(DictGet(arguments, "page_id", EmptyStr))
    IN  IF IsExc(page_id) THEN Raise(page_id)
        ELSE Await(Request("GET", <<NOTION_API, "/pages/">> \o page_id.v, headers, None),
                   Locals(headers, page_id, None, 1))

GetPageResume(locals, data) ==
    IF locals.step = 1
    THEN LET has == In("properties", data)
             title == extract_title(DictGet(data, "properties", Dict(<<>>)))
         IN  IF IsExc(has) THEN Raise(has)
             ELSE IF ~has.v THEN Return(<<"<get page failed>: ">> \o Dumps(data, FALSE))
             ELSE IF IsExc(title) THEN Raise(title)
             ELSE Await(Request("GET", <<NOTION_API, "/blocks/">> \o locals.page_id.v
                                           \o <<"/children">>, locals.headers, None),
                        Locals(locals.headers, locals.page_id, title, 2))
    ELSE LET text == blocks_to_markdown(DictGet(data, "results", List(<<>>)))
         IN  IF IsExc(text) THEN Raise(text)
             ELSE Return(<<"#", " ">> \o locals.title.v \o <<"\n", "\n">> \o text.v)

CreatePageStart(arguments, headers) ==
    LET parent_id == ReplaceDash(DictGet(arguments, "parent_id", EmptyStr))
        parent_type == DictGet(arguments, "parent_type", Str(<<"page_id">>))
        title == DictGet(arguments, "title", Untitled)
        text == DictGet(arguments, "content", EmptyStr)
        payload == Dict(<<Item("parent", Dict(<<Item(KeyOf(parent_type), parent_id)>>)),
                          Item("properties", Dict(<<Item("title", TextProperty("title", title))>>))>>)
        children == markdown_to_blocks(text)
    IN  IF IsExc(parent_id) THEN Raise(parent_id)
        ELSE IF ~Hashable(parent_type) THEN Raise(Exc("TypeError"))
        ELSE IF Truthy(text) /\ IsExc(children) THEN Raise(children)
        ELSE Await(Request("POST", <<NOTION_API, "/pages">>, headers,
                       IF Truthy(text) THEN DictSet(payload, "children", children)
                       ELSE payload),
                   Locals(headers, None, title, 1))

CreatePageResume(locals, data) ==
    LET has == In("id", data)
        id == Subscript(data, "id")
        url == DictGet(data, "url", Str(<<"N/A">>))
    IN  IF IsExc(has) THEN Raise(has)
        ELSE IF ~has.v THEN Return(<<"<create failed>: ">> \o Dumps(data, FALSE))
        ELSE IF IsExc(id) THEN Raise(id)
        ELSE IF IsExc(url) THEN Raise(url)
        ELSE Return(<<"<page created>", "\n", "<title>: ">> \o PyStr(locals.title)
                    \o <<"\n", "ID: ">> \o PyStr(id) \o <<"\n", "URL: ">> \o PyStr(url))

AppendStart(arguments, headers) ==
    LET page_id == ReplaceDash(DictGet(arguments, "page_id", EmptyStr))
        children == markdown_to_blocks(DictGet(arguments, "content", EmptyStr))
    IN  IF IsExc(page_id) THEN Raise(page_id)
        ELSE IF IsExc(children) THEN Raise(children)
        ELSE Await(Request("PATCH", <<NOTION_API, "/blocks/">> \o page_id.v \o <<"/children">>,
                           headers, Dict(<<Item("children", children)>>)),
                   Locals(headers, page_id, None, 1))

AppendResume(data) ==
    LET has == In("results", data)
        n == PyLen(Subscript(data, "results"))
    IN  IF IsExc(has) THEN Raise(has)
        ELSE IF ~has.v THEN Return(<<"<append failed>: ">> \o Dumps(data, FALSE))
        ELSE IF IsExc(n) THEN Raise(n)
        ELSE Return(<<"<content appended, blocks added>: ">> \o PyStr(n))

ListDatabasesStart(arguments, headers) ==
    LET page_size == DictGet(arguments, "page_size", Num(10))
    IN  IF IsExc(page_size) THEN Raise(page_size)
        ELSE Await(Request("POST", <<NOTION_API, "/search">>, headers,
                       Dict(<<Item("filter", Dict(<<Item("property", Str(<<"object">>)),
                                                    Item("value", Str(<<"database">>))>>)),
                              Item("page_size", page_size)>>)),
                   Locals(headers, None, None, 1))

DatabaseItem(db) ==
    LET title == extract_text(DictGet(db, "title", List(<<>>)))
        db_id == DictGet(db, "id", None)
    IN  IF IsExc(title) THEN title
        ELSE Str(<<"<database> ">> \o title.v \o <<"\n", "   ID: ">> \o PyStr(db_id))

ListDatabasesResume(data) ==
    LET found == Collect(PyIter(DictGet(data, "results", List(<<>>))),
                 [i \in 1..Len(Walk(DictGet(data, "results", List(<<>>)))) |-> DatabaseItem(Walk(DictGet(data, "results", List(<<>>)))[i])])
    IN  IF IsExc(found) THEN Raise(found)
        ELSE IF found.v = <<>> THEN Return(<<"<no databases found>">>)
        ELSE Return(Join(<<"\n", "\n">>, Texts(found.v)))

QueryStart(arguments, headers) ==
    LET database_id == ReplaceDash(DictGet(arguments, "database_id", EmptyStr))
        page_size == DictGet(arguments, "page_size", Num(10))
        filter_prop == DictGet(arguments, "filter_property", None)
        filter_val == DictGet(arguments, "filter_value", None)
        payload == Dict(<<Item("page_size", page_size)>>)
    IN  IF IsExc(database_id) THEN Raise(database_id)
        ELSE Await(Request("POST", <<NOTION_API, "/databases/">> \o database_id.v \o <<"/query">>,
                       headers,
                       IF Truthy(filter_prop) /\ Truthy(filter_val)
                       THEN DictSet(payload, "filter",
                                Dict(<<Item("property", filter_prop),
                                       Item("rich_text", Dict(<<Item("contains", filter_val)>>))>>))
                       ELSE payload),
                   Locals(headers, None, None, 1))

QueryItem(item) ==
    LET title == extract_title(DictGet(item, "properties", Dict(<<>>)))
        item_id == DictGet(item, "id", None)
    IN  IF IsExc(title) THEN title
        ELSE Str(<<"<bullet> ">> \o title.v \o <<" (ID: ">> \o PyStr(item_id) \o <<")">>)

QueryResume(data) ==
    LET has == In("results", data)
        found == Collect(PyIter(Subscript(data, "results")),
                 [i \in 1..Len(Walk(Subscript(data, "results"))) |-> QueryItem(Walk(Subscript(data, "results"))[i])])
    IN  IF IsExc(has) THEN Raise(has)
        ELSE IF ~has.v THEN Return(<<"<query failed>: ">> \o Dumps(data, FALSE))
        ELSE IF IsExc(found) THEN Raise(found)
        ELSE IF found.v = <<>> THEN Return(<<"<database empty or no matching entries>">>)
        ELSE Return(<<"<query results> (", ToString(Len(found.v)), " <entries>):", "\n">>
                    \o Join(<<"\n">>, Texts(found.v)))

CreateItemStart(arguments, headers) ==
    LET database_id == ReplaceDash(DictGet(arguments, "database_id", EmptyStr))
        built == CoerceAll(DictGet(arguments, "properties", Dict(<<>>)))
    IN  IF IsExc(database_id) THEN Raise(database_id)
        ELSE IF IsExc(built) THEN Raise(built)
        ELSE Await(Request("POST", <<NOTION_API, "/pages">>, headers,
                       Dict(<<Item("parent", Dict(<<Item("database_id", database_id)>>)),
                              Item("properties", built)>>)),
                   Locals(headers, None, None, 1))

CreateItemResume(data) ==
    LET has == In("id", data)
        id == Subscript(data, "id")
    IN  IF IsExc(has) THEN Raise(has)
        ELSE IF ~has.v THEN Return(<<"<create failed>: ">> \o Dumps(data, FALSE))
        ELSE IF IsExc(id) THEN Raise(id)
        ELSE Return(<<"<item created>", "\n", "ID: ">> \o PyStr(id))

\* The if/elif chain on name, up to the first request
ToolStart(name, arguments, headers) ==
    CASE name = "notion_search" -> SearchStart(arguments, headers)
      [] name = "notion_get_page" -> GetPageStart(arguments, headers)
      [] name = "notion_create_page" -> CreatePageStart(arguments, headers)
      [] name = "notion_append_content" -> AppendStart(arguments, headers)
      [] name = "notion_list_databases" -> ListDatabasesStart(arguments, headers)
      [] name = "notion_query_database" -> QueryStart(arguments, headers)
      [] name = "notion_create_database_item" -> CreateItemStart(arguments, headers)
      [] OTHER -> Return(<<"<unknown tool>: ", name>>)

\* The branch of name from a request's answer on: the await raises the
\* transport's error, resp.json() raises on a body that is no JSON
ToolResume(name, locals, response) ==
    IF IsExc(response) THEN Raise(response)
    ELSE CASE name = "notion_search" -> SearchResume(response)
           [] name = "notion_get_page" -> GetPageResume(locals, response)
           [] name = "notion_create_page" -> CreatePageResume(locals, response)
           [] name = "notion_append_content" -> AppendResume(response)
           [] name = "notion_list_databases" -> ListDatabasesResume(response)
           [] name = "notion_query_database" -> QueryResume(response)
           [] name = "notion_create_database_item" -> CreateItemResume(response)

\* call_tool up to its first request: the credentials, then the tool
CallStart(name, arguments, tok) ==
    LET headers == get_headers(tok)
    IN  IF IsExc(headers)
        THEN Return(<<"<error>: ">> \o ExcMessage(headers) \o <<"\n", "<set NOTION_TOKEN>">>)
        ELSE Handle(ToolStart(name, arguments, headers))

\* The mutant of FrameOf: the locals live in one module-level place.
SharedFrame(i) == 1

\* Where the locals of invocation i live: in its own coroutine frame
FrameOf(i) == i

----------------------------------------------------------------------------
(* What callers ask and what the remote service answers *)

MaxCalls == 2

\* os.environ.get("NOTION_TOKEN"): unset, empty, set
Tokens == {None, EmptyStr, Str(<<"secret">>)}

TitleProperty(text) ==
    Dict(<<Item("id", Str(<<"title">>)), Item("type", Str(<<"title">>)),
           Item("title", List(<<Run(text)>>))>>)

PageObject(id, text) ==
    Dict(<<Item("object", Str(<<"page">>)), Item("id", Str(<<id>>)),
           Item("url", Str(<<"https://www.notion.so/", id>>)),
           Item("properties", Dict(<<
               Item("Status", Dict(<<Item("type", Str(<<"select">>)), Item("select", None)>>)),
               Item("Name", TitleProperty(text))>>))>>)

DatabaseObject(id, text) ==
    Dict(<<Item("object", Str(<<"database">>)), Item("id", Str(<<id>>)),
           Item("title", List(<<Run(text)>>))>>)

ResultList(items) == Dict(<<Item("object", Str(<<"list">>)), Item("results", List(items))>>)

ChildrenList ==
    ResultList(<<Dict(<<Item("object", Str(<<"block">>)), Item("type", Str(<<"heading_2">>)),
                        Item("heading_2", Dict(<<Item("rich_text", List(<<Run(<<"H", "i">>)>>))>>))>>),
                 Dict(<<Item("object", Str(<<"block">>)), Item("type", Str(<<"divider">>)),
                        Item("divider", Dict(<<>>))>>),
                 Dict(<<Item("object", Str(<<"block">>)), Item("type", Str(<<"to_do">>)),
                        Item("to_do", Dict(<<Item("rich_text", List(<<Run(<<"m">>)>>)),
                                             Item("checked", Bool(TRUE))>>))>>)>>)

ErrorObject ==
    Dict(<<Item("object", Str(<<"error">>)), Item("status", Num(401)),
           Item("code", Str(<<"unauthorized">>)),
           Item("message", Str(<<"API token is invalid.">>))>>)

\* What a request may end in: the transport's error, a body that is no
\* JSON, the service's error object, its payloads, and JSON of other shapes
AllResponses ==
    { Exc("HTTPError"), Exc("JSONDecodeError"), ErrorObject,
      PageObject("id1", <<"R", "e", "p">>),
      ResultList(<<PageObject("id1", <<"R", "e", "p">>), DatabaseObject("id2", <<"D", "B">>),
                   Dict(<<Item("object", Str(<<"user">>))>>)>>),
      ResultList(<<>>), ChildrenList,
      None, List(<<>>), List(<<Str(<<"id">>), Str(<<"results">>)>>), Str(<<"results">>), Num(0),
      Dict(<<Item("results", None)>>), Dict(<<Item("results", List(<<None>>))>>),
      Dict(<<Item("id", None), Item("properties", List(<<>>))>>) }

Call(name, arguments) == [name |-> name, arguments |-> arguments]

\* The invocations a single caller makes: every tool, with arguments that are
\* complete, defaulted, or of the wrong type
CallConfigs ==
    { Call("notion_search", Dict(<<Item("query", Str(<<"q">>))>>)),
      Call("notion_search", Dict(<<Item("query", Str(<<"q">>)), Item("filter", Str(<<"page">>)),
                                   Item("page_size", Num(5))>>)),
      Call("notion_get_page", Dict(<<Item("page_id", Str(<<"a", "-", "b">>))>>)),
      Call("notion_get_page", Dict(<<Item("page_id", Num(1))>>)),
      Call("notion_get_page", Dict(<<>>)),
      Call("notion_create_page",
           Dict(<<Item("parent_id", Str(<<"a", "-", "b">>)), Item("parent_type", Str(<<"database_id">>)),
                  Item("title", Str(<<"T">>)),
                  Item("content", Str(<<"#", " ", "a", "\n", "b">>))>>)),
      Call("notion_create_page", Dict(<<Item("parent_id", Str(<<"p">>))>>)),
      Call("notion_create_page",
           Dict(<<Item("parent_id", Str(<<"p">>)), Item("parent_type", List(<<>>))>>)),
      Call("notion_create_page",
           Dict(<<Item("parent_id", Str(<<"p">>)), Item("content", Num(1))>>)),
      Call("notion_append_content",
           Dict(<<Item("page_id", Str(<<"p">>)), Item("content", Str(<<"-", " ", "a">>))>>)),
      Call("notion_append_content", Dict(<<Item("page_id", Str(<<"p">>)), Item("content", None)>>)),
      Call("notion_list_databases", Dict(<<>>)),
      Call("notion_list_databases", None),
      Call("notion_query_database", Dict(<<Item("database_id", Str(<<"d">>))>>)),
      Call("notion_query_database",
           Dict(<<Item("database_id", Str(<<"d">>)), Item("filter_property", Str(<<"Name">>)),
                  Item("filter_value", Str(<<"x">>))>>)),
      Call("notion_create_database_item",
           Dict(<<Item("database_id", Str(<<"d">>)),
                  Item("properties", Dict(<<Item("Name", Str(<<"T">>)), Item("Done", Bool(TRUE)),
                                            Item("Priority", Num(2))>>))>>)),
      Call("notion_create_database_item",
           Dict(<<Item("database_id", Str(<<"d">>)), Item("properties", List(<<>>))>>)),
      Call("notion_delete_page", Dict(<<Item("page_id", Str(<<"p">>))>>)) }

\* The invocations concurrent callers make, and the answers they get
ConcConfigs ==
    { Call("notion_get_page", Dict(<<Item("page_id", Str(<<"a", "-", "b">>))>>)),
      Call("notion_get_page", Dict(<<Item("page_id", Str(<<"c">>))>>)),
      Call("notion_create_page",
           Dict(<<Item("parent_id", Str(<<"p">>)), Item("title", Str(<<"T">>)),
                  Item("content", Str(<<"#", " ", "a">>))>>)) }

PageOf(id, text) ==
    Dict(<<Item("id", Str(<<id>>)),
           Item("properties", Dict(<<Item("Name", TitleProperty(text))>>))>>)

ChildrenOf(text) ==
    ResultList(<<Dict(<<Item("type", Str(<<"heading_2">>)),
                        Item("heading_2", Dict(<<Item("rich_text", List(<<Run(text)>>))>>))>>)>>)

ConcResponses ==
    { Exc("HTTPError"), PageOf("id1", <<"R">>), PageOf("id3", <<"Q">>), ChildrenOf(<<"H">>) }

CallsStart(configs) ==
    /\ tool = [i \in calls |-> configs[i].name]
    /\ args = [i \in calls |-> configs[i].arguments]
    /\ pc = [i \in calls |-> "start"]
    /\ frame = [i \in calls |-> NoLocals]
    /\ sent = [i \in calls |-> <<>>]
    /\ received = [i \in calls |-> <<>>]
    /\ returned = [i \in calls |-> None]
    /\ overlapped = [i \in calls |-> FALSE]

InitCall ==
    /\ MdIdle /\ CvIdle /\ CoIdle
    /\ token \in Tokens
    /\ calls = {1}
    /\ \E c \in CallConfigs : CallsStart(<<c>>)
    /\ remote = AllResponses

InitConc ==
    /\ MdIdle /\ CvIdle /\ CoIdle
    /\ token \in {None, Str(<<"secret">>)}
    /\ calls = 1..MaxCalls
    /\ \E cs \in [1..MaxCalls -> ConcConfigs] : CallsStart(cs)
    /\ remote = ConcResponses

\* Invocation i has run to a return, an escaped exception, or a request.
Settle(i, outcome) ==
    IF outcome.kind = "await"
    THEN /\ pc' = [pc EXCEPT ![i] = "await"]
         /\ sent' = [sent EXCEPT ![i] = Append(@, outcome.req)]
         /\ frame' = [frame EXCEPT ![FrameOf(i)] = outcome.locals]
         /\ UNCHANGED returned
    ELSE /\ pc' = [pc EXCEPT ![i] = "done"]
         /\ returned' = [returned EXCEPT ![i] = outcome.value]
         /\ UNCHANGED <<sent, frame>>

\* call_tool is entered and runs to its first request or to its return.
Start(i) ==
    /\ pc[i] = "start"
    /\ Settle(i, CallStart(tool[i], args[i], token))
    /\ UNCHANGED <<token, calls, tool, args, received, overlapped, remote, mdVars, cvVars, coVars>>

\* The request of invocation i ends, and i runs on to its next request or
\* to its return.
Respond(i) ==
    /\ pc[i] = "await"
    /\ \E response \in remote :
          /\ received' = [received EXCEPT ![i] = Append(@, response)]
          /\ Settle(i, Handle(ToolResume(tool[i], frame[FrameOf(i)], response)))
    /\ overlapped' = [overlapped EXCEPT ![i] = @ \/ \E j \in calls \ {i} : pc[j] = "await"]
    /\ UNCHANGED <<token, calls, tool, args, remote, mdVars, cvVars, coVars>>

NextCall ==
    \/ \E i \in calls : Start(i)
    \/ \E i \in calls : Respond(i)

SpecCall == InitCall /\ [][NextCall]_vars

SpecConc == InitConc /\ [][NextCall]_vars

----------------------------------------------------------------------------
(* call_tool: claims *)

IsText(value) ==
    /\ value.t = "list"
    /\ Len(value.v) >= 1
    /\ \A k \in 1..Len(value.v) :
          /\ value.v[k].t = "TextContent"
          /\ \A n \in 1..Len(value.v[k].v) : value.v[k].v[n] \in STRING

NoCredentialText ==
    List(<<TextContent(<<"<error>: ", "NOTION_TOKEN environment variable not set",
                         "\n", "<set NOTION_TOKEN>">>)>>)

\* C9: whatever the tool name, the arguments and the outcome of its
\* requests, an invocation of call_tool that has ended has returned a list
\* of text segments and no exception has left it; without the credential it
\* returns the text that says so and issues no request; and after a
\* transport failure it returns the text that reports the HTTP error.
C9_AlwaysReturnsText ==
    \A i \in calls :
        /\ pc[i] = "done" => IsText(returned[i])
        /\ pc[i] # "done" => returned[i] = None
        /\ ~Truthy(token) =>
              /\ sent[i] = <<>>
              /\ pc[i] = "done" => returned[i] = NoCredentialText
        /\ (pc[i] = "done" /\ received[i] # <<>>
                /\ received[i][Len(received[i])] = Exc("HTTPError")) =>
              returned[i].v[1].v[1] = "<HTTP error>: "

\* notion_get_page has read the page, and the transport fails on its
\* second request.
C9_Witness ==
    /\ tool[1] = "notion_get_page"
    /\ pc[1] = "done"
    /\ Len(sent[1]) = 2
    /\ received[1] = <<PageObject("id1", <<"R", "e", "p">>), Exc("HTTPError")>>
    /\ returned[1] = List(<<TextContent(<<"<HTTP error>: ", "<message of ", "HTTPError", ">">>)>>)

\* The invocation run alone: each of its requests is answered at once by the
\* next of the given responses.
RECURSIVE RunFrom(_, _, _, _, _)
RunFrom(name, outcome, requests, responses, k) ==
    IF outcome.kind # "await"
    THEN [returned |-> outcome.value, sent |-> requests, locals |-> NoLocals, waits |-> FALSE]
    ELSE IF k > Len(responses)
    THEN [returned |-> None, sent |-> Append(requests, outcome.req),
          locals |-> outcome.locals, waits |-> TRUE]
    ELSE RunFrom(name, Handle(ToolResume(name, outcome.locals, responses[k])),
                 Append(requests, outcome.req), responses, k + 1)

RunAlone(name, arguments, tok, responses) ==
    RunFrom(name, CallStart(name, arguments, tok), <<>>, responses, 1)

\* C10: however the invocations interleave at their requests, each one has
\* issued the requests, keeps the locals and returns the text that it would
\* if it ran alone with its name, its arguments and the responses to its own
\* requests.
C10_InvocationsIndependent ==
    \A i \in calls :
        pc[i] # "start" =>
            LET alone == RunAlone(tool[i], args[i], token, received[i])
            IN  /\ returned[i] = alone.returned
                /\ sent[i] = alone.sent
                /\ (pc[i] = "await") = alone.waits
                /\ pc[i] = "await" => frame[i] = alone.locals

\* Two notion_get_page invocations of different pages, each of which went on
\* while the other was waiting, have both returned their own page.
C10_Witness ==
    /\ tool[1] = "notion_get_page" /\ tool[2] = "notion_get_page"
    /\ args[1] # args[2]
    /\ overlapped[1] /\ overlapped[2]
    /\ pc[1] = "done" /\ pc[2] = "done"
    /\ received[1] = <<PageOf("id1", <<"R">>), ChildrenOf(<<"H">>)>>
    /\ received[2] = <<PageOf("id3", <<"Q">>), ChildrenOf(<<"H">>)>>
    /\ returned[1] = List(<<TextContent(<<"#", " ", "R", "\n", "\n", "#", "#", " ", "H">>)>>)
    /\ returned[2] = List(<<TextContent(<<"#", " ", "Q", "\n", "\n", "#", "#", " ", "H">>)>>)

=============================================================================
